---- MODULE Spec2Model ----
(***************************************************************************)
(* Model of discord_todo_bot.py: the task store (users, tasks, badges),    *)
(* the commands addtask / edittask / donetask, the streak and badge        *)
(* engine, the once-a-minute reminder sweep check_due_tasks and the daily   *)
(* broadcast send_motivational_quote.                                      *)
(*                                                                         *)
(* Texts are sequences of one-character strings, so that the substring     *)
(* tests, split, strip and capitalize of the handlers are computed.        *)
(* Timestamps are clock ticks; a UTC calendar day is TicksPerDay ticks.    *)
(* Every get_session() block is one transaction: it commits as a whole or, *)
(* when the store fails, rolls back as a whole.                            *)
(***************************************************************************)
EXTENDS Integers, Sequences, FiniteSets, TLC

\* ------------------------------------------------------------------ bounds
MaxTasks == 3
MaxDay == 15
TicksPerDay == 2
MaxNow == MaxDay * TicksPerDay + (TicksPerDay - 1)
MaxSent == 2

\* nullable columns (last_completed, due_date) hold NULL when unset
NULL == -1

\* ----------------------------------------------------------------- strings
LowerCase ==
  <<"a","b","c","d","e","f","g","h","i","j","k","l","m",
    "n","o","p","q","r","s","t","u","v","w","x","y","z">>
UpperCase ==
  <<"A","B","C","D","E","F","G","H","I","J","K","L","M",
    "N","O","P","Q","R","S","T","U","V","W","X","Y","Z">>
Digits == <<"0","1","2","3","4","5","6","7","8","9">>

IndexIn(c, table) ==
  IF \E i \in 1..Len(table) : table[i] = c
  THEN CHOOSE i \in 1..Len(table) : table[i] = c
  ELSE 0

ToUpper(c) == IF IndexIn(c, LowerCase) > 0 THEN UpperCase[IndexIn(c, LowerCase)] ELSE c
ToLower(c) == IF IndexIn(c, UpperCase) > 0 THEN LowerCase[IndexIn(c, UpperCase)] ELSE c

\* str.capitalize(): first character upper-cased, the rest lower-cased
Capitalize(s) ==
  [i \in 1..Len(s) |-> IF i = 1 THEN ToUpper(s[i]) ELSE ToLower(s[i])]

IsSpace(c) == c = " "

\* str.strip(): leading and trailing whitespace removed
Strip(s) ==
  LET idx == {i \in 1..Len(s) : ~IsSpace(s[i])}
  IN  IF idx = {} THEN <<>>
      ELSE LET lo == CHOOSE i \in idx : \A j \in idx : i <= j
               hi == CHOOSE i \in idx : \A j \in idx : i >= j
           IN  SubSeq(s, lo, hi)

\* str.rstrip(c): trailing occurrences of the character c removed
RStripChar(s, c) ==
  LET idx == {i \in 1..Len(s) : s[i] # c}
  IN  IF idx = {} THEN <<>>
      ELSE SubSeq(s, 1, CHOOSE i \in idx : \A j \in idx : i >= j)

MatchAt(s, sub, i) ==
  /\ i >= 1
  /\ i + Len(sub) - 1 <= Len(s)
  /\ \A k \in 1..Len(sub) : s[i + k - 1] = sub[k]

\* `sub in s`
Contains(s, sub) == \E i \in 1..Len(s) : MatchAt(s, sub, i)

\* index of the first occurrence of sub in s at or after position from, 0 if none
FindFrom(s, sub, from) ==
  LET hits == {i \in from..Len(s) : MatchAt(s, sub, i)}
  IN  IF hits = {} THEN 0 ELSE CHOOSE i \in hits : \A j \in hits : i <= j

\* str.split(sep): the parts between the non-overlapping occurrences of sep
RECURSIVE SplitFrom(_, _, _)
SplitFrom(s, sep, from) ==
  LET at == FindFrom(s, sep, from)
  IN  IF at = 0 THEN <<SubSeq(s, from, Len(s))>>
      ELSE <<SubSeq(s, from, at - 1)>> \o SplitFrom(s, sep, at + Len(sep))

Split(s, sep) == SplitFrom(s, sep, 1)

\* sep.join(parts)
RECURSIVE Join(_, _)
Join(parts, sep) ==
  IF Len(parts) = 0 THEN <<>>
  ELSE IF Len(parts) = 1 THEN parts[1]
  ELSE parts[1] \o sep \o Join(Tail(parts), sep)

PriorityMarker == <<"[","P","r","i","o","r","i","t","y",":">>
ByToken == <<"b","y">>
High == <<"H","i","g","h">>
Medium == <<"M","e","d","i","u","m">>
Low == <<"L","o","w">>
Priorities == {High, Medium, Low}

\* The weekday names dateutil knows, in the order of date.weekday()
Weekdays ==
  << <<"m","o","n","d","a","y">>, <<"t","u","e","s","d","a","y">>,
     <<"w","e","d","n","e","s","d","a","y">>, <<"t","h","u","r","s","d","a","y">>,
     <<"f","r","i","d","a","y">>, <<"s","a","t","u","r","d","a","y">>,
     <<"s","u","n","d","a","y">> >>

\* date.weekday() of a calendar day; day 0 of the model's clock is a Monday
WeekdayOf(day) == day % 7

\* dateutil's parser.parse(date_str, fuzzy=True) on the date phrases of the
\* model, called on the calendar day today: a phrase with a digit names the
\* instant of its first digit (in ticks); a phrase with a weekday name (in
\* any letter case) names midnight of the first such day from today on; the
\* other words are skipped, and a phrase with neither raises.
ParseDate(s, today) ==
  LET idx == {i \in 1..Len(s) : IndexIn(s[i], Digits) > 0}
      lower == [i \in 1..Len(s) |-> ToLower(s[i])]
      named == {w \in 1..Len(Weekdays) : Contains(lower, Weekdays[w])}
  IN  IF idx # {}
      THEN LET first == CHOOSE i \in idx : \A j \in idx : i <= j
           IN  [ok |-> TRUE, ts |-> IndexIn(s[first], Digits) - 1]
      ELSE IF named # {}
      THEN LET w == CHOOSE v \in named : \A x \in named : v <= x
               ahead == ((w - 1) - WeekdayOf(today) + 7) % 7
           IN  [ok |-> TRUE, ts |-> (today + ahead) * TicksPerDay]
      ELSE [ok |-> FALSE, ts |-> NULL]

\* (variant: the word of the marker taken without rstrip(']'))
ExtractPriorityNoRStrip(text, default) ==
  IF Contains(text, PriorityMarker)
  THEN LET parts == Split(text, PriorityMarker)
           priority_part == Strip(parts[2])
       IN  [text |-> Strip(parts[1]),
            priority |-> IF Capitalize(priority_part) \in Priorities
                         THEN Capitalize(priority_part) ELSE default]
  ELSE [text |-> text, priority |-> default]

\* (variant: a marker whose word is no tier sets Medium)
ExtractPriorityResets(text, default) ==
  IF Contains(text, PriorityMarker)
  THEN LET parts == Split(text, PriorityMarker)
           priority_part == RStripChar(Strip(parts[2]), "]")
       IN  [text |-> Strip(parts[1]),
            priority |-> IF Capitalize(priority_part) \in Priorities
                         THEN Capitalize(priority_part) ELSE Medium]
  ELSE [text |-> text, priority |-> default]

\* The priority block of add_task / edit_task: the text before the marker,
\* stripped, and the tier when the marker's word is High, Medium or Low.
ExtractPriority(text, default) ==
  IF Contains(text, PriorityMarker)
  THEN LET parts == Split(text, PriorityMarker)
           priority_part == RStripChar(Strip(parts[2]), "]")
       IN  [text |-> Strip(parts[1]),
            priority |-> IF Capitalize(priority_part) \in Priorities
                         THEN Capitalize(priority_part) ELSE default]
  ELSE [text |-> text, priority |-> default]

\* The due-date block of add_task: split on "by", parse what follows.
ExtractDueAdd(text, today) ==
  IF Contains(text, ByToken)
  THEN LET parts == Split(text, ByToken)
           date_str == Strip(Join(Tail(parts), ByToken))
           parsed == ParseDate(date_str, today)
       IN  [ok |-> parsed.ok, text |-> Strip(parts[1]), due_date |-> parsed.ts]
  ELSE [ok |-> TRUE, text |-> text, due_date |-> NULL]

\* (variant: without "by" the whole text is parsed for a date, none found
\* leaving the task without due date)
ExtractDueEditFuzzy(text, today) ==
  IF Contains(text, ByToken)
  THEN LET parts == Split(text, ByToken)
           date_str == Strip(Join(Tail(parts), ByToken))
           parsed == ParseDate(date_str, today)
       IN  [ok |-> parsed.ok, text |-> Strip(parts[1]), due_date |-> parsed.ts]
  ELSE [ok |-> TRUE, text |-> Strip(text), due_date |-> ParseDate(text, today).ts]

\* The due-date block of edit_task: as add_task, but without "by" the text is
\* stripped and the due date is removed.
ExtractDueEdit(text, today) ==
  IF Contains(text, ByToken)
  THEN LET parts == Split(text, ByToken)
           date_str == Strip(Join(Tail(parts), ByToken))
           parsed == ParseDate(date_str, today)
       IN  [ok |-> parsed.ok, text |-> Strip(parts[1]), due_date |-> parsed.ts]
  ELSE [ok |-> TRUE, text |-> Strip(text), due_date |-> NULL]

\* ------------------------------------------------------------------- state
BadgeNames == <<"3-day-streak", "7-day-streak", "14-day-streak">>
Outcomes == {"ok", "blocked", "error"}

VARIABLES
  users,     \* table users: row i has id i; discord_id, points, streak, last_completed
  tasks,     \* table tasks: row i has id i; description, due_date, completed, priority, notified, user_id
  badges,    \* table badges: name, user_id
  now,       \* the UTC clock, in ticks
  sweep,     \* the check_due_tasks loop: pc, the batch it queried, its position, the rows it flagged
  sent,      \* per task id, the reminders the transport delivered
  quote,     \* the send_motivational_quote loop: pc, the users it queried, its position, who got what
  reply,     \* what the last command answered: command, task id, kind, badges
  done_log   \* the donetask runs that reached their end: user id, day, badges returned

vars == <<users, tasks, badges, now, sweep, sent, quote, reply, done_log>>

SweepStopped == [pc |-> "stopped", batch |-> <<>>, idx |-> 0, dirty |-> {}]
SweepIdle == [pc |-> "idle", batch |-> <<>>, idx |-> 0, dirty |-> {}]
QuoteStopped ==
  [pc |-> "stopped", batch |-> <<>>, idx |-> 0, got |-> {}, failed |-> {}, missed |-> {}]
QuoteSleeping ==
  [pc |-> "sleep", batch |-> <<>>, idx |-> 0, got |-> {}, failed |-> {}, missed |-> {}]
NoReply == [cmd |-> "none", task |-> 0, kind |-> "none", badges |-> <<>>]
Answer(cmd, task_id, kind) == [cmd |-> cmd, task |-> task_id, kind |-> kind, badges |-> <<>>]

\* datetime.date(): the calendar day of a timestamp
DateOf(ts) == ts \div TicksPerDay

\* Column defaults of the three tables
NewUser(discord_id) ==
  [discord_id |-> discord_id, points |-> 0, streak |-> 0, last_completed |-> NULL]
NewTask(description, due_date, priority, user_id) ==
  [description |-> description, due_date |-> due_date, completed |-> FALSE,
   priority |-> priority, notified |-> FALSE, user_id |-> user_id]
NewBadge(name, user_id) == [name |-> name, user_id |-> user_id]

Init ==
  /\ users = <<>>
  /\ tasks = <<>>
  /\ badges = <<>>
  /\ now = 0
  /\ sweep = SweepStopped
  /\ sent = [t \in 1..MaxTasks |-> 0]
  /\ quote = QuoteStopped
  /\ reply = NoReply
  /\ done_log = <<>>

\* ----------------------------------------------------------------- helpers
\* session.query(User).filter_by(discord_id=...).first(): the row's id, 0 if none
FindUser(us, discord_id) ==
  LET hits == {i \in 1..Len(us) : us[i].discord_id = discord_id}
  IN  IF hits = {} THEN 0 ELSE CHOOSE i \in hits : \A j \in hits : i <= j

\* (variant: the row inserted without the look-up of the row already there)
GetOrCreateUserAlways(us, discord_id) ==
  [users |-> Append(us, NewUser(discord_id)), id |-> Len(us) + 1]

\* get_or_create_user: the users table after the call and the id returned
GetOrCreateUser(us, discord_id) ==
  IF FindUser(us, discord_id) # 0
  THEN [users |-> us, id |-> FindUser(us, discord_id)]
  ELSE [users |-> Append(us, NewUser(discord_id)), id |-> Len(us) + 1]

\* (variant: the points assigned with = in place of +=)
AwardPointsSet(us, user_id, points) ==
  IF user_id \in 1..Len(us)
  THEN [us EXCEPT ![user_id].points = points]
  ELSE us

\* award_points: points added to the row of user_id, if there is one
AwardPoints(us, user_id, points) ==
  IF user_id \in 1..Len(us)
  THEN [us EXCEPT ![user_id].points = @ + points]
  ELSE us

\* session.query(Badge).filter_by(user_id=..., name=...).first() is not None
HasBadge(bs, user_id, name) ==
  \E i \in 1..Len(bs) : bs[i].user_id = user_id /\ bs[i].name = name

\* (variant: a gap of two days or more counts on instead of starting over)
NextStreakNoReset(user, today) ==
  IF user.last_completed # NULL
  THEN LET days_diff == today - DateOf(user.last_completed)
       IN  IF days_diff >= 1 THEN user.streak + 1 ELSE user.streak
  ELSE 1

\* The streak branch of update_streak_and_badges
NextStreak(user, today) ==
  IF user.last_completed # NULL
  THEN LET days_diff == today - DateOf(user.last_completed)
       IN  IF days_diff = 1 THEN user.streak + 1
           ELSE IF days_diff > 1 THEN 1
           ELSE user.streak
  ELSE 1

\* (variant: the new badge takes the place of the badges the user holds)
AwardBadgeReplace(acc, user_id, streak, threshold, name) ==
  IF streak >= threshold /\ ~HasBadge(acc.badges, user_id, name)
  THEN [badges |-> Append(SelectSeq(acc.badges, LAMBDA b : b.user_id # user_id),
                          NewBadge(name, user_id)),
        awarded |-> Append(acc.awarded, name)]
  ELSE acc

\* (variant: the badge test without the look-up of the badge already held)
AwardBadgeAgain(acc, user_id, streak, threshold, name) ==
  IF streak >= threshold
  THEN [badges |-> Append(acc.badges, NewBadge(name, user_id)),
        awarded |-> Append(acc.awarded, name)]
  ELSE acc

\* (variant: the badge test with > in place of >=)
AwardBadgeStrict(acc, user_id, streak, threshold, name) ==
  IF streak > threshold /\ ~HasBadge(acc.badges, user_id, name)
  THEN [badges |-> Append(acc.badges, NewBadge(name, user_id)),
        awarded |-> Append(acc.awarded, name)]
  ELSE acc

\* One badge test of update_streak_and_badges: acc is [badges, awarded]
AwardBadge(acc, user_id, streak, threshold, name) ==
  IF streak >= threshold /\ ~HasBadge(acc.badges, user_id, name)
  THEN [badges |-> Append(acc.badges, NewBadge(name, user_id)),
        awarded |-> Append(acc.awarded, name)]
  ELSE acc

\* (variant: the badge tests read the streak as it was before the update)
UpdateStreakAndBadgesStale(us, bs, user_id, t) ==
  IF user_id \notin 1..Len(us)
  THEN [users |-> us, badges |-> bs, awarded |-> <<>>]
  ELSE LET streak == NextStreak(us[user_id], DateOf(t))
           a0 == [badges |-> bs, awarded |-> <<>>]
           a1 == AwardBadge(a0, user_id, us[user_id].streak, 3, BadgeNames[1])
           a2 == AwardBadge(a1, user_id, us[user_id].streak, 7, BadgeNames[2])
           a3 == AwardBadge(a2, user_id, us[user_id].streak, 14, BadgeNames[3])
       IN  [users |-> [us EXCEPT ![user_id].streak = streak,
                                 ![user_id].last_completed = t],
            badges |-> a3.badges,
            awarded |-> a3.awarded]

\* update_streak_and_badges: the tables after the call and the names returned
UpdateStreakAndBadges(us, bs, user_id, t) ==
  IF user_id \notin 1..Len(us)
  THEN [users |-> us, badges |-> bs, awarded |-> <<>>]
  ELSE LET streak == NextStreak(us[user_id], DateOf(t))
           a0 == [badges |-> bs, awarded |-> <<>>]
           a1 == AwardBadge(a0, user_id, streak, 3, BadgeNames[1])
           a2 == AwardBadge(a1, user_id, streak, 7, BadgeNames[2])
           a3 == AwardBadge(a2, user_id, streak, 14, BadgeNames[3])
       IN  [users |-> [us EXCEPT ![user_id].streak = streak,
                                 ![user_id].last_completed = t],
            badges |-> a3.badges,
            awarded |-> a3.awarded]

\* (variant: the query without its user_id filter)
PendingTaskAnyOwner(ts, task_id, user_id) ==
  /\ task_id \in 1..Len(ts)
  /\ ts[task_id].completed = FALSE

\* (variant: the query without its completed=False filter)
PendingTaskAnyState(ts, task_id, user_id) ==
  /\ task_id \in 1..Len(ts)
  /\ ts[task_id].user_id = user_id

\* session.query(Task).filter_by(id=task_id, user_id=user_id, completed=False).first()
PendingTask(ts, task_id, user_id) ==
  /\ task_id \in 1..Len(ts)
  /\ ts[task_id].user_id = user_id
  /\ ts[task_id].completed = FALSE

\* (variant: the query without its notified == False filter)
DueTasksAnyNotified(ts, t) ==
  SelectSeq([i \in 1..Len(ts) |-> i],
            LAMBDA i : /\ ts[i].completed = FALSE
                       /\ ts[i].due_date # NULL
                       /\ ts[i].due_date <= t)

\* The query of check_due_tasks: ids of the rows with completed = False,
\* due_date <= now (never true of a NULL due_date) and notified = False
DueTasks(ts, t) ==
  SelectSeq([i \in 1..Len(ts) |-> i],
            LAMBDA i : /\ ts[i].completed = FALSE
                       /\ ts[i].due_date # NULL
                       /\ ts[i].due_date <= t
                       /\ ts[i].notified = FALSE)

\* ------------------------------------------------------------------ inputs
TxtEmpty == <<>>
TxtPlain == <<"x">>
TxtDue0 == <<"x"," ","b","y"," ","0">>
TxtDue1 == <<"x"," ","b","y"," ","1">>
TxtHigh == <<"y"," ","[","P","r","i","o","r","i","t","y",":"," ","H","i","g","h","]">>
TxtEditAll ==
  <<"y"," ","b","y"," ","1"," ","[","P","r","i","o","r","i","t","y",":"," ","h","i","g","h","]">>
TxtBadDate == <<"x"," ","b","y"," ","q">>
\* "Finish report by Friday [Priority: High]"
TxtReport ==
  <<"F","i","n","i","s","h"," ","r","e","p","o","r","t"," ","b","y"," ","F",
    "r","i","d","a","y"," ","[","P","r","i","o","r","i","t","y",":"," ","H",
    "i","g","h","]">>
\* "[Priority: High] z"
TxtMarkerFirst ==
  <<"[","P","r","i","o","r","i","t","y",":"," ","H","i","g","h","]"," ",
    "z">>
\* "[Priority: Low]"
TxtMarkerOnly ==
  <<"[","P","r","i","o","r","i","t","y",":"," ","L","o","w","]">>
\* "by 1"
TxtByFirst ==
  <<"b","y"," ","1">>
\* "w [Priority: Top]"
TxtBadWord ==
  <<"w"," ","[","P","r","i","o","r","i","t","y",":"," ","T","o","p","]">>
\* "z [Priority: LOW]"
TxtLowUpper ==
  <<"z"," ","[","P","r","i","o","r","i","t","y",":"," ","L","O","W","]">>
\* "x 2"
TxtDigit == <<"x"," ","2">>
RawTexts ==
  {TxtEmpty, TxtPlain, TxtDue0, TxtDue1, TxtHigh, TxtEditAll, TxtBadDate,
   TxtReport, TxtMarkerFirst, TxtMarkerOnly, TxtByFirst, TxtBadWord, TxtLowUpper,
   TxtDigit}

\* What add_task extracts from a text on the day today (lines 339-373):
\* priority, then due date
ExtractAdd(text, today) ==
  LET p == ExtractPriority(text, Medium)
      d == ExtractDueAdd(p.text, today)
  IN  [ok |-> d.ok, description |-> d.text, due_date |-> d.due_date,
       priority |-> p.priority]

\* What edit_task extracts from a text on the day today, for a task of the
\* given priority (lines 449-487)
ExtractEdit(text, priority, today) ==
  LET p == ExtractPriority(text, priority)
      d == ExtractDueEdit(p.text, today)
  IN  [ok |-> d.ok, description |-> d.text, due_date |-> d.due_date,
       priority |-> p.priority]

\* The two extractions, computed once for the texts the commands are given
Days == 0..MaxDay
AddTable == [text \in RawTexts |-> [today \in Days |-> ExtractAdd(text, today)]]
EditTable ==
  [text \in RawTexts |->
    [priority \in Priorities |-> [today \in Days |-> ExtractEdit(text, priority, today)]]]

\* ---------------------------------------------------------------- commands
\* A command's parameter fail names the transaction of the handler at which
\* the store fails (session.commit() raises and get_session rolls back);
\* 0 is a run without a store failure.

\* !addtask: lines 332-394
AddTask(u, text, fail) ==
  /\ UNCHANGED <<badges, now, sweep, sent, quote, done_log>>
  /\ IF text = <<>>
     THEN reply' = Answer("addtask", 0, "usage") /\ UNCHANGED <<users, tasks>>
     ELSE LET x == AddTable[text][DateOf(now)]
              g == GetOrCreateUser(users, u)
          IN  IF ~x.ok
              THEN reply' = Answer("addtask", 0, "parse_error") /\ UNCHANGED <<users, tasks>>
              ELSE IF fail = 1
              THEN reply' = Answer("addtask", 0, "error") /\ UNCHANGED <<users, tasks>>
              ELSE IF fail = 2
              THEN /\ users' = g.users
                   /\ reply' = Answer("addtask", 0, "error")
                   /\ UNCHANGED tasks
              ELSE /\ Len(tasks) < MaxTasks
                   /\ users' = g.users
                   /\ tasks' = Append(tasks, NewTask(x.description, x.due_date, x.priority, g.id))
                   /\ reply' = Answer("addtask", Len(tasks) + 1, "added")

\* !edittask: lines 433-501
EditTask(u, task_id, text, fail) ==
  /\ UNCHANGED <<badges, now, sweep, sent, quote, done_log>>
  /\ IF task_id = 0 \/ text = <<>>
     THEN reply' = Answer("edittask", task_id, "usage") /\ UNCHANGED <<users, tasks>>
     ELSE IF fail = 1
     THEN reply' = Answer("edittask", task_id, "error") /\ UNCHANGED <<users, tasks>>
     ELSE LET g == GetOrCreateUser(users, u)
          IN  /\ users' = g.users
              /\ IF ~PendingTask(tasks, task_id, g.id)
                 THEN reply' = Answer("edittask", task_id, "not_found") /\ UNCHANGED tasks
                 ELSE LET x == EditTable[text][tasks[task_id].priority][DateOf(now)]
                      IN  IF ~x.ok
                          THEN reply' = Answer("edittask", task_id, "parse_error") /\ UNCHANGED tasks
                          ELSE IF fail = 2
                          THEN reply' = Answer("edittask", task_id, "error") /\ UNCHANGED tasks
                          ELSE /\ tasks' = [tasks EXCEPT ![task_id].description = x.description,
                                                         ![task_id].due_date = x.due_date,
                                                         ![task_id].priority = x.priority]
                               /\ reply' = Answer("edittask", task_id, "updated")

\* !donetask: lines 504-547.  Four transactions in a row, with no await
\* between them: get_or_create_user, the completed flag,
\* update_streak_and_badges, award_points.
DoneTask(u, task_id, fail) ==
  /\ UNCHANGED <<now, sweep, sent, quote>>
  /\ IF task_id = 0
     THEN reply' = Answer("donetask", task_id, "usage") /\ UNCHANGED <<users, tasks, badges, done_log>>
     ELSE IF fail = 1
     THEN reply' = Answer("donetask", task_id, "error") /\ UNCHANGED <<users, tasks, badges, done_log>>
     ELSE LET g == GetOrCreateUser(users, u)
              completed == [tasks EXCEPT ![task_id].completed = TRUE]
              r == UpdateStreakAndBadges(g.users, badges, g.id, now)
          IN  IF ~PendingTask(tasks, task_id, g.id)
              THEN /\ users' = g.users
                   /\ reply' = Answer("donetask", task_id, "not_found")
                   /\ UNCHANGED <<tasks, badges, done_log>>
              ELSE IF fail = 2
              THEN /\ users' = g.users
                   /\ reply' = Answer("donetask", task_id, "error")
                   /\ UNCHANGED <<tasks, badges, done_log>>
              ELSE IF fail = 3
              THEN /\ users' = g.users
                   /\ tasks' = completed
                   /\ reply' = Answer("donetask", task_id, "error")
                   /\ UNCHANGED <<badges, done_log>>
              ELSE IF fail = 4
              THEN /\ users' = r.users
                   /\ tasks' = completed
                   /\ badges' = r.badges
                   /\ reply' = Answer("donetask", task_id, "error")
                   /\ UNCHANGED done_log
              ELSE /\ users' = AwardPoints(r.users, g.id, 10)
                   /\ tasks' = completed
                   /\ badges' = r.badges
                   /\ reply' = [cmd |-> "donetask", task |-> task_id, kind |-> "done", badges |-> r.awarded]
                   /\ done_log' = Append(done_log,
                        [user |-> g.id, day |-> DateOf(now), awarded |-> r.awarded])

\* The clock advances
Tick ==
  /\ now < MaxNow
  /\ now' = now + 1
  /\ UNCHANGED <<users, tasks, badges, sweep, sent, quote, reply, done_log>>

\* ---------------------------------------------------------- reminder sweep
\* on_ready (lines 271-289) starts each of the two loops that is not running
OnReady ==
  /\ sweep.pc = "stopped" \/ quote.pc = "stopped"
  /\ sweep' = IF sweep.pc = "stopped" THEN SweepIdle ELSE sweep
  /\ quote' = IF quote.pc = "stopped" THEN QuoteSleeping ELSE quote
  /\ UNCHANGED <<users, tasks, badges, now, sent, reply, done_log>>

\* (variant: the flag set in a finally clause, whatever the send did)
FlagAlways(dirty, task_id, outcome) == dirty \cup {task_id}

\* The rows the sweep flags after a send returned with outcome: line 160 runs
\* only when send returned normally; discord.Forbidden is caught at line 162
FlagAfterSend(dirty, task_id, outcome) ==
  IF outcome = "ok" THEN dirty \cup {task_id} ELSE dirty

\* session.commit() of the sweep: notified = True written for the flagged rows
CommitNotified(ts, dirty) ==
  [i \in 1..Len(ts) |-> IF i \in dirty THEN [ts[i] EXCEPT !.notified = TRUE] ELSE ts[i]]

\* The sweep goes on from position k of its batch (the tasks before k are
\* those whose user bot.get_user did not find): it awaits the send for
\* batch[k], or is at the end of the batch and commits.  A failing commit
\* rolls back and ends the loop.
SweepGoOn(batch, k, dirty, commit_ok) ==
  IF k <= Len(batch)
  THEN /\ sweep' = [pc |-> "await", batch |-> batch, idx |-> k, dirty |-> dirty]
       /\ UNCHANGED tasks
  ELSE IF commit_ok
  THEN /\ sweep' = SweepIdle
       /\ tasks' = CommitNotified(tasks, dirty)
  ELSE /\ sweep' = SweepStopped
       /\ UNCHANGED tasks

\* One iteration of check_due_tasks begins: the query, up to the first await
CheckDueTasks(k, commit_ok) ==
  /\ sweep.pc = "idle"
  /\ k \in 1..(Len(DueTasks(tasks, now)) + 1)
  /\ SweepGoOn(DueTasks(tasks, now), k, {}, commit_ok)
  /\ UNCHANGED <<users, badges, now, sent, quote, reply, done_log>>

\* The awaited discord_user.send returns: delivered, blocked (discord.Forbidden)
\* or failed with another error, which leaves the with block and rolls back
SendReturns(outcome, k, commit_ok) ==
  /\ sweep.pc = "await"
  /\ UNCHANGED <<users, badges, now, quote, reply, done_log>>
  /\ LET task_id == sweep.batch[sweep.idx]
     IN  IF outcome = "error"
         THEN /\ sweep' = SweepStopped
              /\ UNCHANGED <<tasks, sent>>
         ELSE /\ k \in (sweep.idx + 1)..(Len(sweep.batch) + 1)
              /\ outcome = "ok" => sent[task_id] < MaxSent
              /\ sent' = IF outcome = "ok"
                         THEN [sent EXCEPT ![task_id] = @ + 1] ELSE sent
              /\ SweepGoOn(sweep.batch, k,
                           FlagAfterSend(sweep.dirty, task_id, outcome), commit_ok)

\* ------------------------------------------------------ daily broadcast
\* What the loop does after a send returned with outcome: it goes on with
\* the next user when the send returned or raised discord.Forbidden (caught
\* at line 195); any other exception leaves the for loop and the with block
\* and ends the loop
QuoteAfterSend(outcome) == IF outcome = "error" THEN "stopped" ELSE "await"

\* The broadcast goes on from position k of the users it queried (the users
\* from position from up to k are those bot.get_user did not find): it awaits
\* the send to batch[k], or is at the end and sleeps until the next day
QuoteGoOn(batch, from, k, got, failed, missed) ==
  LET skipped == {batch[i] : i \in from..(k - 1)}
  IN  quote' = [pc |-> IF k <= Len(batch) THEN "await" ELSE "sleep",
                batch |-> batch,
                idx |-> IF k <= Len(batch) THEN k ELSE Len(batch),
                got |-> got, failed |-> failed, missed |-> missed \cup skipped]

\* send_motivational_quote after its sleep (lines 185-193): the query of all
\* users, up to the first await
SendMotivationalQuote(k) ==
  /\ quote.pc = "sleep"
  /\ k \in 1..(Len(users) + 1)
  /\ QuoteGoOn([i \in 1..Len(users) |-> i], 1, k, {}, {}, {})
  /\ UNCHANGED <<users, tasks, badges, now, sweep, sent, reply, done_log>>

\* The awaited discord_user.send of the broadcast returns (lines 193-196)
QuoteSendReturns(outcome, k) ==
  /\ quote.pc = "await"
  /\ UNCHANGED <<users, tasks, badges, now, sweep, sent, reply, done_log>>
  /\ LET user_id == quote.batch[quote.idx]
         got == IF outcome = "ok" THEN quote.got \cup {user_id} ELSE quote.got
         failed == IF outcome = "ok" THEN quote.failed ELSE quote.failed \cup {user_id}
     IN  IF QuoteAfterSend(outcome) = "stopped"
         THEN quote' = [quote EXCEPT !.pc = "stopped", !.failed = failed]
         ELSE /\ k \in (quote.idx + 1)..(Len(quote.batch) + 1)
              /\ QuoteGoOn(quote.batch, quote.idx + 1, k, got, failed, quote.missed)

\* update_streak_and_badges called on its own (lines 223-264): one
\* transaction, which commits or rolls back
ApplyStreakUpdate(user_id, commit_ok) ==
  /\ UNCHANGED <<tasks, now, sweep, sent, quote, done_log>>
  /\ LET r == UpdateStreakAndBadges(users, badges, user_id, now)
     IN  IF commit_ok
         THEN /\ users' = r.users
              /\ badges' = r.badges
              /\ reply' = [cmd |-> "streak", task |-> 0, kind |-> "done", badges |-> r.awarded]
         ELSE /\ reply' = Answer("streak", 0, "error")
              /\ UNCHANGED <<users, badges>>

\* ------------------------------------------------------------------ bounds of the specifications
LifeTasks == 2
ShortNow == 2
StreakDays == 3
StreakNow == StreakDays * TicksPerDay + (TicksPerDay - 1)
MaxStreak0 == 14
TextTasks == 1

\* ---------------------------------------------------------- specifications
\* The whole bot for one account: the commands, the clock, and the reminder
\* sweep, which the commands interleave with at its awaits
Next ==
  \/ Len(tasks) < LifeTasks /\ AddTask("a1", TxtDue0, 0)
  \/ \E id \in 1..LifeTasks : EditTask("a1", id, TxtEditAll, 0)
  \/ \E id \in 1..LifeTasks : DoneTask("a1", id, 0)
  \/ now < ShortNow /\ Tick
  \/ OnReady
  \/ \E k \in 1..(LifeTasks + 1), commit_ok \in BOOLEAN : CheckDueTasks(k, commit_ok)
  \/ \E outcome \in Outcomes, k \in 1..(LifeTasks + 1), commit_ok \in BOOLEAN :
       SendReturns(outcome, k, commit_ok)

Spec == Init /\ [][Next]_vars

\* The same with a store that never fails: only the transport's outcomes vary
DeliveryNext ==
  \/ Len(tasks) < LifeTasks /\ AddTask("a1", TxtDue0, 0)
  \/ \E id \in 1..LifeTasks : EditTask("a1", id, TxtEditAll, 0)
  \/ \E id \in 1..LifeTasks : DoneTask("a1", id, 0)
  \/ now < ShortNow /\ Tick
  \/ OnReady
  \/ \E k \in 1..(LifeTasks + 1) : CheckDueTasks(k, TRUE)
  \/ \E outcome \in Outcomes, k \in 1..(LifeTasks + 1) : SendReturns(outcome, k, TRUE)

SpecDelivery == Init /\ [][DeliveryNext]_vars

\* The task lifecycle with a store that may fail in any transaction
LifeNext ==
  \/ \E text \in {TxtEmpty, TxtPlain, TxtDue1} :
       Len(tasks) < LifeTasks /\ AddTask("a1", text, 0)
  \/ \E id \in 1..LifeTasks, text \in {TxtHigh, TxtBadDate}, fail \in {0, 2} :
       EditTask("a1", id, text, fail)
  \/ \E id \in 1..LifeTasks, fail \in 0..4 : DoneTask("a1", id, fail)
  \/ now < ShortNow /\ Tick

SpecLife == Init /\ [][LifeNext]_vars

\* Streaks: one account adds plain tasks and completes them over the days
StreakNext ==
  \/ AddTask("a1", TxtPlain, 0)
  \/ \E id \in 1..MaxTasks, fail \in 0..4 : DoneTask("a1", id, fail)
  \/ now < StreakNow /\ Tick

SpecStreak == Init /\ [][StreakNext]_vars

\* The streak and badge engine over many days, for an account that has
\* issued !start (get_or_create_user, line 295) and nothing else
InitStarted ==
  /\ users = <<NewUser("a1")>>
  /\ tasks = <<>>
  /\ badges = <<>>
  /\ now = 0
  /\ sweep = SweepStopped
  /\ sent = [t \in 1..MaxTasks |-> 0]
  /\ quote = QuoteStopped
  /\ reply = NoReply
  /\ done_log = <<>>

GamNext ==
  \/ \E commit_ok \in BOOLEAN : ApplyStreakUpdate(1, commit_ok)
  \/ Tick

SpecGam == InitStarted /\ [][GamNext]_vars

\* update_streak_and_badges as a function of the rows it is given: any
\* streak, any last completion, any set of badges, none of them twice
BadgeSeqs ==
  {<<>>, <<1>>, <<2>>, <<3>>, <<1, 2>>, <<1, 3>>, <<2, 3>>, <<1, 2, 3>>}

InitStore ==
  /\ \E streak \in 0..MaxStreak0, last \in {NULL, 0, 1} :
       users = <<[discord_id |-> "a1", points |-> 0, streak |-> streak,
                  last_completed |-> last]>>
  /\ \E held \in BadgeSeqs :
       badges = [i \in 1..Len(held) |-> NewBadge(BadgeNames[held[i]], 1)]
  /\ tasks = <<>>
  /\ now = 1
  /\ sweep = SweepStopped
  /\ sent = [t \in 1..MaxTasks |-> 0]
  /\ quote = QuoteStopped
  /\ reply = NoReply
  /\ done_log = <<>>

StoreNext ==
  \/ \E commit_ok \in BOOLEAN : ApplyStreakUpdate(1, commit_ok)
  \/ now < StreakNow /\ Tick

SpecStore == InitStore /\ [][StoreNext]_vars

\* Two accounts share the store: each adds tasks and edits and completes
\* tasks by id, its own, the other's, and ids no task has
Accounts == {"a1", "a2"}

OwnNext ==
  \/ \E u \in Accounts, text \in {TxtEmpty, TxtDue1, TxtBadDate}, fail \in 0..2 :
       Len(tasks) < LifeTasks /\ AddTask(u, text, fail)
  \/ \E u \in Accounts, id \in 0..LifeTasks, text \in {TxtEmpty, TxtHigh, TxtBadDate} :
       EditTask(u, id, text, 0)
  \/ \E u \in Accounts, id \in 0..LifeTasks : DoneTask(u, id, 0)

SpecOwn == Init /\ [][OwnNext]_vars

\* Two accounts over the days: they add plain tasks, complete them by id
\* and earn badges; the store may fail in the transactions of addtask
UsersNext ==
  \/ \E u \in Accounts, fail \in 0..2 : AddTask(u, TxtPlain, fail)
  \/ \E u \in Accounts, id \in 1..MaxTasks : DoneTask(u, id, 0)
  \/ now < StreakNow /\ Tick

SpecUsers == Init /\ [][UsersNext]_vars

\* The extraction of description, due date and priority: one account adds
\* and edits with texts of every shape
AddTexts ==
  {TxtEmpty, TxtPlain, TxtDue1, TxtHigh, TxtReport, TxtMarkerFirst, TxtMarkerOnly,
   TxtByFirst, TxtBadWord, TxtLowUpper}
EditTexts ==
  {TxtPlain, TxtDue0, TxtHigh, TxtEditAll, TxtBadDate, TxtMarkerFirst, TxtByFirst,
   TxtBadWord, TxtLowUpper, TxtDigit}

TextNext ==
  \/ \E text \in AddTexts : Len(tasks) < TextTasks /\ AddTask("a1", text, 0)
  \/ \E id \in 1..TextTasks, text \in EditTexts : EditTask("a1", id, text, 0)
  \/ now < ShortNow /\ Tick

SpecText == Init /\ [][TextNext]_vars

\* Due dates: one account adds tasks with and without a due date and edits
\* them with and without "by", while the reminder sweep runs
DueAddTexts == {TxtPlain, TxtDue0, TxtHigh}
DueEditTexts == {TxtPlain, TxtDue1, TxtHigh, TxtDigit, TxtLowUpper}

DueNext ==
  \/ \E text \in DueAddTexts : Len(tasks) < TextTasks /\ AddTask("a1", text, 0)
  \/ \E id \in 1..TextTasks, text \in DueEditTexts : EditTask("a1", id, text, 0)
  \/ now < ShortNow /\ Tick
  \/ OnReady
  \/ \E k \in 1..(TextTasks + 1) : CheckDueTasks(k, TRUE)
  \/ \E outcome \in Outcomes, k \in 1..(TextTasks + 1) : SendReturns(outcome, k, TRUE)

SpecDue == Init /\ [][DueNext]_vars

\* The daily broadcast, to the users the commands of two accounts created
QuoteNext ==
  \/ \E u \in Accounts : Len(tasks) < LifeTasks /\ AddTask(u, TxtPlain, 0)
  \/ now < ShortNow /\ Tick
  \/ OnReady
  \/ \E k \in 1..(Cardinality(Accounts) + 1) : SendMotivationalQuote(k)
  \/ \E outcome \in Outcomes, k \in 1..(Cardinality(Accounts) + 1) :
       QuoteSendReturns(outcome, k)

SpecQuote == Init /\ [][QuoteNext]_vars

\* Points: two accounts add, edit and complete tasks over the days, with a
\* store that never fails
PointsNext ==
  \/ \E u \in Accounts : Len(tasks) < LifeTasks /\ AddTask(u, TxtPlain, 0)
  \/ \E u \in Accounts, id \in 1..LifeTasks : EditTask(u, id, TxtHigh, 0)
  \/ \E u \in Accounts, id \in 1..LifeTasks : DoneTask(u, id, 0)
  \/ now < ShortNow /\ Tick

SpecPoints == Init /\ [][PointsNext]_vars

\* Reminders under fair scheduling.  The account "a1" accepts direct
\* messages: a send to it is delivered.  A send to the account "a2" is
\* blocked or fails with an error.  bot.get_user finds every user and the
\* store does not fail.
Accepting == {"a1"}

OutcomesFor(task_id) ==
  IF users[tasks[task_id].user_id].discord_id \in Accepting
  THEN {"ok"} ELSE {"blocked", "error"}

LiveCheck == CheckDueTasks(1, TRUE)

LiveSend ==
  /\ sweep.pc = "await"
  /\ \E outcome \in OutcomesFor(sweep.batch[sweep.idx]) :
       SendReturns(outcome, sweep.idx + 1, TRUE)

LiveNext ==
  \/ \E u \in Accounts : Len(tasks) < LifeTasks /\ AddTask(u, TxtDue0, 0)
  \/ \E id \in 1..LifeTasks : EditTask("a1", id, TxtEditAll, 0)
  \/ \E id \in 1..LifeTasks : DoneTask("a1", id, 0)
  \/ now < ShortNow /\ Tick
  \/ OnReady
  \/ LiveCheck
  \/ LiveSend

\* The loop runs its body every minute while it is running (tasks.loop,
\* line 139), an awaited send returns, and the gateway reports ready again
\* after the loop has ended (on_ready, lines 276-279)
LiveFairness ==
  /\ WF_vars(OnReady)
  /\ WF_vars(LiveCheck)
  /\ WF_vars(LiveSend)

SpecLive == Init /\ [][LiveNext]_vars /\ LiveFairness

\* ------------------------------------------------------------------ claims
CompletedOf(user_id) ==
  {t \in 1..Len(tasks) : tasks[t].user_id = user_id /\ tasks[t].completed}

BadgeCount(user_id, name) ==
  Cardinality({i \in 1..Len(badges) : badges[i].user_id = user_id /\ badges[i].name = name})

\* C1: in every step of the commands, the clock and the reminder sweep, a
\* task that is completed stays completed and keeps its description, due date
\* and priority: no command re-opens it and EditTask changes only tasks that
\* are not completed.
C1_Step ==
  \A t \in 1..Len(tasks) :
    tasks[t].completed =>
      /\ t \in 1..Len(tasks')
      /\ tasks'[t].completed
      /\ tasks'[t].description = tasks[t].description
      /\ tasks'[t].due_date = tasks[t].due_date
      /\ tasks'[t].priority = tasks[t].priority

\* C1 (formula): every step keeps a completed task completed and unedited
C1_CompletedTaskIsFrozen == [][C1_Step]_vars

\* C1 witness: the owner's edittask on a completed task was answered not-found
C1_Witness ==
  /\ reply.cmd = "edittask"
  /\ reply.kind = "not_found"
  /\ reply.task \in 1..Len(tasks)
  /\ tasks[reply.task].completed
  /\ tasks[reply.task].user_id = FindUser(users, "a1")

\* C2: a donetask on a task that is already completed never answers "done",
\* answers not-found when the store does not fail, and leaves every user's
\* row, every badge and every task as they were; so the points never exceed
\* 10 per completed task and the streak updates that ran never outnumber them.
C2_Step ==
  \A id \in 1..Len(tasks), fail \in 0..4 :
    (tasks[id].completed /\ reply'.cmd = "donetask" /\ reply'.task = id
       /\ DoneTask("a1", id, fail)) =>
      /\ reply'.kind = IF fail = 1 THEN "error" ELSE "not_found"
      /\ users' = users
      /\ badges' = badges
      /\ tasks' = tasks
      /\ done_log' = done_log

C2_OncePerTask ==
  \A u \in 1..Len(users) :
    /\ users[u].points <= 10 * Cardinality(CompletedOf(u))
    /\ Cardinality({i \in 1..Len(done_log) : done_log[i].user = u})
         <= Cardinality(CompletedOf(u))

\* C2 (formula): a second donetask on a task is not-found and awards nothing
C2_SecondCompleteIsNotFound == [](C2_OncePerTask) /\ [][C2_Step]_vars

\* C2 witness: a second donetask on a task the caller completed (with its
\* points awarded) was answered not-found
C2_Witness ==
  /\ reply.cmd = "donetask"
  /\ reply.kind = "not_found"
  /\ reply.task \in 1..Len(tasks)
  /\ tasks[reply.task].completed
  /\ tasks[reply.task].user_id = FindUser(users, "a1")
  /\ users[FindUser(users, "a1")].points = 10

\* C3: a donetask that runs to its end sets the streak from the whole-day
\* difference d between today and the day of the last completion: no last
\* completion -> 1; d = 1 -> one more; d >= 2 -> 1; d = 0 -> unchanged; and
\* the last completion becomes now.
C3_Step ==
  \A id \in 1..Len(tasks) :
    (PendingTask(tasks, id, FindUser(users, "a1")) /\ DoneTask("a1", id, 0)) =>
      LET u == FindUser(users, "a1")
          last == users[u].last_completed
          d == (now \div TicksPerDay) - (last \div TicksPerDay)
      IN  /\ last = NULL => users'[u].streak = 1
          /\ (last # NULL /\ d = 1) => users'[u].streak = users[u].streak + 1
          /\ (last # NULL /\ d >= 2) => users'[u].streak = 1
          /\ (last # NULL /\ d = 0) => users'[u].streak = users[u].streak
          /\ users'[u].last_completed = now

\* C3 (formula): every completed donetask updates the streak by the day difference
C3_StreakFollowsDayDifference == [][C3_Step]_vars

\* C3 witness: three completions, on a day, the day after (streak 2) and two
\* or more days later (streak back to 1)
C3_Witness ==
  /\ Len(done_log) = 3
  /\ Cardinality(CompletedOf(1)) = 3
  /\ done_log[2].day = done_log[1].day + 1
  /\ done_log[3].day >= done_log[2].day + 2
  /\ users[1].streak = 1
  /\ users[1].last_completed = now

\* C4: no user holds two badges of one name
C4_OneBadgePerName ==
  \A u \in 1..Len(users) : \A i \in 1..Len(BadgeNames) : BadgeCount(u, BadgeNames[i]) <= 1

\* C4 witness: the streak reached 7, was reset, and is at 3 again after a
\* further update, with one 3-day badge
C4_Witness ==
  /\ HasBadge(badges, 1, "7-day-streak")
  /\ users[1].streak = 3
  /\ reply.cmd = "streak"
  /\ reply.kind = "done"
  /\ BadgeCount(1, "3-day-streak") = 1

BadgeThresholds == <<3, 7, 14>>

\* C5: update_streak_and_badges creates the badge of threshold N exactly when
\* the updated streak is >= N and the badge is not held, all of them in the
\* one call, and returns the names it created in ascending threshold order.
C5_Step ==
  ApplyStreakUpdate(1, TRUE) =>
    LET created == SelectSeq(<<1, 2, 3>>,
                     LAMBDA i : /\ users'[1].streak >= BadgeThresholds[i]
                                /\ ~HasBadge(badges, 1, BadgeNames[i]))
    IN  /\ reply'.badges = [i \in 1..Len(created) |-> BadgeNames[created[i]]]
        /\ badges' = badges \o [i \in 1..Len(created) |->
                                  [name |-> BadgeNames[created[i]], user_id |-> 1]]

\* C5 (formula): every update creates and returns exactly the qualifying badges
C5_BadgesCreatedIffQualifying == [][C5_Step]_vars

\* C5 witness: one call created all three badges
C5_Witness ==
  /\ reply.cmd = "streak"
  /\ reply.badges = <<"3-day-streak", "7-day-streak", "14-day-streak">>
  /\ Len(badges) = 3
  /\ users[1].streak >= 14

\* C6: when the first three completions of a fresh user are on three
\* consecutive days (and every completed task was completed by a donetask
\* that ran to its end), the badge "3-day-streak" is awarded by the third
\* completion and by no other, is held once, and the streak after the third
\* completion is 3.
C6_ThreeDayStreak ==
  LET n == Len(done_log)
  IN  ( /\ n >= 3
        /\ Cardinality(CompletedOf(1)) = n
        /\ done_log[2].day = done_log[1].day + 1
        /\ done_log[3].day = done_log[1].day + 2 )
      => /\ \A i \in 1..n :
              (\E j \in 1..Len(done_log[i].awarded) : done_log[i].awarded[j] = "3-day-streak")
                <=> i = 3
         /\ BadgeCount(1, "3-day-streak") = 1
         /\ n = 3 => users[1].streak = 3

\* C6 witness: the third completion on the third consecutive day
C6_Witness ==
  /\ Len(done_log) = 3
  /\ Cardinality(CompletedOf(1)) = 3
  /\ done_log[2].day = done_log[1].day + 1
  /\ done_log[3].day = done_log[1].day + 2
  /\ users[1].streak = 3
  /\ reply.kind = "done"
  /\ reply.badges = <<"3-day-streak">>

\* C7: no task has a reminder delivered for it more than once
C7_AtMostOneDelivery == \A t \in 1..MaxTasks : sent[t] <= 1

\* C8: when a send is reported blocked, the sweep flags that task: the row is
\* among those its commit writes notified = True for, or has it already
C8_Step ==
  \A k \in 1..(MaxTasks + 1) :
    SendReturns("blocked", k, TRUE) =>
      \/ sweep.batch[sweep.idx] \in sweep'.dirty
      \/ tasks'[sweep.batch[sweep.idx]].notified

\* C8 (formula): every blocked send leaves its task flagged as notified
C8_BlockedSetsNotified == [][C8_Step]_vars

\* C9: a task is completed exactly when the streak update and the 10 points
\* of its donetask are applied too: each user's points are 10 per completed
\* task, and a user with a completed task has a last completion and a streak.
C9_AllOrNothing ==
  \A u \in 1..Len(users) :
    /\ users[u].points = 10 * Cardinality(CompletedOf(u))
    /\ CompletedOf(u) # {} <=> users[u].last_completed # NULL
    /\ CompletedOf(u) # {} <=> users[u].streak >= 1

\* C10: notified becomes true only in the step that ends a sweep, only for a
\* task whose reminder that sweep delivered; the rows a sweep has flagged are
\* rows whose reminder was delivered; and a send that fails with an error
\* leaves every notified flag as it was, false for the task it was sent for.
C10_Step ==
  /\ \A t \in 1..Len(tasks) :
       (~tasks[t].notified /\ tasks'[t].notified) =>
         /\ sweep.pc = "await"
         /\ sweep'.pc = "idle"
         /\ \E i \in 1..sweep.idx : sweep.batch[i] = t
         /\ sent'[t] >= 1
         /\ t \in sweep.dirty \/ sent'[t] = sent[t] + 1
  /\ \A t \in sweep'.dirty : t \in sweep.dirty \/ sent'[t] = sent[t] + 1
  /\ \A k \in 1..(MaxTasks + 1), commit_ok \in BOOLEAN :
       SendReturns("error", k, commit_ok) =>
         /\ ~tasks'[sweep.batch[sweep.idx]].notified
         /\ \A t \in 1..Len(tasks) : tasks'[t].notified = tasks[t].notified

\* C10 (formula): notified is set only by the sweep, only after a delivery
C10_NotifiedOnlyAfterDelivery == [][C10_Step]_vars

\* C10 witness: a sweep delivered a reminder, a later send of the same sweep
\* failed with an error, and the delivered task is not notified; another
\* task is notified after its delivery
C10_Witness ==
  /\ \E t \in 1..Len(tasks) : tasks[t].notified /\ sent[t] >= 1
  /\ \E t \in 1..Len(tasks) : ~tasks[t].notified /\ sent[t] >= 1
  /\ sweep.pc = "stopped"

\* The task task_id is absent, owned by another user than the account u's,
\* or already completed
NoPendingTaskOf(u, task_id) ==
  \/ task_id \notin 1..Len(tasks)
  \/ FindUser(users, u) = 0
  \/ tasks[task_id].user_id # FindUser(users, u)
  \/ tasks[task_id].completed

\* Every task and badge, and every user's row, is after the step as before
RowsKept ==
  /\ tasks' = tasks
  /\ badges' = badges
  /\ \A i \in 1..Len(users) : i \in 1..Len(users') /\ users'[i] = users[i]

\* C11: an addtask or edittask answered with a usage or parse error, and an
\* edittask or donetask on a task that is absent, another user's or already
\* completed, which is answered not-found, leave every task, every badge and
\* every user's points, streak and last completion as they were.
C11_Step ==
  /\ reply'.kind \in {"usage", "parse_error", "not_found"} => RowsKept
  /\ \A u \in Accounts :
       /\ (reply'.cmd = "addtask" /\ AddTask(u, TxtEmpty, 0)) => reply'.kind = "usage"
       /\ (reply'.cmd = "addtask" /\ AddTask(u, TxtBadDate, 0)) => reply'.kind = "parse_error"
       /\ \A id \in 1..LifeTasks :
            /\ (reply'.cmd = "edittask" /\ reply'.task = id /\ EditTask(u, id, TxtEmpty, 0))
                 => reply'.kind = "usage"
            /\ (reply'.cmd = "edittask" /\ reply'.task = id /\ ~NoPendingTaskOf(u, id)
                  /\ EditTask(u, id, TxtBadDate, 0))
                 => reply'.kind = "parse_error"
            /\ NoPendingTaskOf(u, id) =>
                 /\ \A text \in {TxtHigh, TxtBadDate} :
                      (reply'.cmd = "edittask" /\ reply'.task = id /\ EditTask(u, id, text, 0))
                        => reply'.kind = "not_found"
                 /\ (reply'.cmd = "donetask" /\ reply'.task = id /\ DoneTask(u, id, 0))
                        => reply'.kind = "not_found"

\* C11 (formula): a failed command leaves tasks, badges and users' rows alone
C11_FailedCommandMutatesNothing == [][C11_Step]_vars

\* C11 witness: an edittask on a pending task with a due date was answered
\* with a parse error, after a donetask on another user's task was refused
C11_Witness ==
  /\ reply.cmd = "edittask"
  /\ reply.kind = "parse_error"
  /\ reply.task \in 1..Len(tasks)
  /\ ~tasks[reply.task].completed
  /\ tasks[reply.task].due_date # NULL
  /\ Len(users) = 2
  /\ \E u \in 1..Len(users) : \A t \in 1..Len(tasks) : tasks[t].user_id # u

\* The fields of a task that its owner's commands set
OwnerFields(task) ==
  <<task.description, task.due_date, task.priority, task.completed>>

\* C12: an edittask or donetask by an account on a task of another user is
\* answered not-found and leaves the task as it was; and every step that
\* changes a task's description, due date, priority or completed flag is an
\* edittask or donetask of the task's owner on that task.
C12_Step ==
  /\ \A u \in Accounts, id \in 1..Len(tasks) :
       tasks[id].user_id # FindUser(users, u) =>
         /\ \A text \in {TxtHigh, TxtBadDate} :
              (reply'.cmd = "edittask" /\ reply'.task = id /\ EditTask(u, id, text, 0))
                => reply'.kind = "not_found" /\ tasks'[id] = tasks[id]
         /\ (reply'.cmd = "donetask" /\ reply'.task = id /\ DoneTask(u, id, 0))
                => reply'.kind = "not_found" /\ tasks'[id] = tasks[id]
  /\ \A t \in 1..Len(tasks) :
       (t \in 1..Len(tasks') /\ OwnerFields(tasks'[t]) # OwnerFields(tasks[t])) =>
         LET owner == users[tasks[t].user_id].discord_id
         IN  /\ reply'.task = t
             /\ \/ \E text \in {TxtHigh, TxtBadDate} : EditTask(owner, t, text, 0)
                \/ DoneTask(owner, t, 0)

\* C12 (formula): only its owner's commands change a task
C12_OnlyOwnerChangesTask == [][C12_Step]_vars

\* C12 witness: a donetask on a pending task was answered not-found (the
\* caller is not its owner), and the task is as its owner's addtask made it
C12_Witness ==
  /\ reply.cmd = "donetask"
  /\ reply.kind = "not_found"
  /\ reply.task \in 1..Len(tasks)
  /\ ~tasks[reply.task].completed
  /\ tasks[reply.task].description = <<"x">>
  /\ Len(users) = 2

\* The texts without "by"
NoByTexts == {text \in RawTexts : ~Contains(text, ByToken)}

\* C13: a successful edittask whose text has no "by" leaves the task without
\* due date, whatever it had before, and an addtask with such a text creates
\* a task without due date.
C13_Step ==
  /\ \A id \in 1..Len(tasks), text \in DueEditTexts \cap NoByTexts :
       (reply'.cmd = "edittask" /\ reply'.kind = "updated" /\ reply'.task = id
          /\ EditTask("a1", id, text, 0))
         => tasks'[id].due_date = NULL
  /\ \A text \in DueAddTexts \cap NoByTexts :
       (reply'.cmd = "addtask" /\ reply'.kind = "added" /\ AddTask("a1", text, 0))
         => tasks'[Len(tasks')].due_date = NULL

\* C13 (formula): without "by", an edit removes the due date and an add sets none
C13_NoByNoDueDate == [][C13_Step]_vars

\* C13 witness: a task that was due (its reminder was delivered) was edited
\* with the text "x 2" and has no due date
C13_Witness ==
  /\ reply.cmd = "edittask"
  /\ reply.kind = "updated"
  /\ reply.task \in 1..Len(tasks)
  /\ sent[reply.task] >= 1
  /\ tasks[reply.task].description = TxtDigit
  /\ tasks[reply.task].due_date = NULL

\* The word of the marker of a text: what stands between "[Priority:" and
\* the next "]", stripped; <<>> when the text has no marker
MarkerWord(text) ==
  LET at == FindFrom(text, PriorityMarker, 1)
      from == at + Len(PriorityMarker)
      close == FindFrom(text, <<"]">>, from)
  IN  IF at = 0 THEN <<>>
      ELSE Strip(SubSeq(text, from, IF close = 0 THEN Len(text) ELSE close - 1))

\* The tier a text's marker names, in canonical form; <<>> when it names none
MarkerTier ==
  [text \in RawTexts |->
     IF Capitalize(MarkerWord(text)) \in Priorities
     THEN Capitalize(MarkerWord(text)) ELSE <<>>]

\* C14: for a text with the marker [Priority: X], X being High, Medium or Low
\* in any letter case, wherever the marker stands, a successful addtask or
\* edittask stores the canonical tier of X and a description without the
\* marker.
C14_Step ==
  /\ \A text \in AddTexts :
       (MarkerTier[text] # <<>> /\ reply'.cmd = "addtask" /\ reply'.kind = "added"
          /\ AddTask("a1", text, 0))
         => /\ tasks'[Len(tasks')].priority = MarkerTier[text]
            /\ ~Contains(tasks'[Len(tasks')].description, PriorityMarker)
  /\ \A id \in 1..Len(tasks), text \in EditTexts :
       (MarkerTier[text] # <<>> /\ reply'.cmd = "edittask" /\ reply'.kind = "updated"
          /\ reply'.task = id /\ EditTask("a1", id, text, 0))
         => /\ tasks'[id].priority = MarkerTier[text]
            /\ ~Contains(tasks'[id].description, PriorityMarker)

\* C14 (formula): a marker naming a tier sets that tier, wherever it stands
C14_MarkerSetsTier == [][C14_Step]_vars

\* The text "Finish report"
FinishReport == <<"F","i","n","i","s","h"," ","r","e","p","o","r","t">>

\* C15: a successful addtask leaves the caller with a user row and appends
\* exactly one task, owned by the caller, not completed, not notified, of
\* priority Medium when the text has no marker naming a tier; for "Finish
\* report by Friday [Priority: High]" the task has the description "Finish
\* report", the priority High and a due date, midnight of the first Friday
\* from today on.
C15_Step ==
  \A text \in AddTexts :
    (reply'.cmd = "addtask" /\ reply'.kind = "added" /\ AddTask("a1", text, 0)) =>
      LET new == tasks'[Len(tasks')]
      IN  /\ tasks' = Append(tasks, new)
          /\ FindUser(users', "a1") # 0
          /\ new.user_id = FindUser(users', "a1")
          /\ \A i \in 1..Len(users) : users'[i] = users[i]
          /\ badges' = badges
          /\ new.completed = FALSE
          /\ new.notified = FALSE
          /\ MarkerTier[text] = <<>> => new.priority = Medium
          /\ text = TxtReport =>
               /\ new.description = FinishReport
               /\ new.priority = High
               /\ new.due_date # NULL
               /\ new.due_date % TicksPerDay = 0
               /\ WeekdayOf(DateOf(new.due_date)) = 4
               /\ DateOf(new.due_date) \in DateOf(now)..(DateOf(now) + 6)

\* C15 (formula): addtask inserts one task of the caller with the defaults
C15_AddTaskInsertsOne == [][C15_Step]_vars

\* C15 witness: the task that "Finish report by Friday [Priority: High]" made
C15_Witness ==
  /\ reply.cmd = "addtask"
  /\ reply.kind = "added"
  /\ reply.task = Len(tasks)
  /\ tasks[reply.task].description = FinishReport
  /\ tasks[reply.task].priority = High
  /\ tasks[reply.task].due_date # NULL
  /\ ~tasks[reply.task].completed
  /\ ~tasks[reply.task].notified
  /\ tasks[reply.task].user_id = FindUser(users, "a1")

\* C16: every stored task has a description that is not empty
C16_DescriptionNotEmpty ==
  \A t \in 1..Len(tasks) : Strip(tasks[t].description) # <<>>

\* C17: a successful edittask whose text has no marker, or a marker whose
\* word is no tier, leaves the task's priority as it was; and every task's
\* priority is High, Medium or Low.
C17_Step ==
  \A id \in 1..Len(tasks), text \in EditTexts :
    (MarkerTier[text] = <<>> /\ reply'.cmd = "edittask" /\ reply'.kind = "updated"
       /\ reply'.task = id /\ EditTask("a1", id, text, 0))
      => tasks'[id].priority = tasks[id].priority

C17_PriorityIsTier == \A t \in 1..Len(tasks) : tasks[t].priority \in Priorities

\* C17 (formula): an edit without a tier keeps the priority, always a tier
C17_EditKeepsPriority == [](C17_PriorityIsTier) /\ [][C17_Step]_vars

\* C17 witness: a task of priority High was edited with "w [Priority: Top]"
\* and is of priority High
C17_Witness ==
  /\ reply.cmd = "edittask"
  /\ reply.kind = "updated"
  /\ reply.task \in 1..Len(tasks)
  /\ tasks[reply.task].description = <<"w">>
  /\ tasks[reply.task].priority = High

\* C18: when a broadcast is over, every user it queried has got the message,
\* unless the send to that very user failed or bot.get_user did not find the
\* user: a failure for one user keeps the message from no other user.
C18_OthersStillServed ==
  quote.pc \in {"sleep", "stopped"} =>
    \A i \in 1..Len(quote.batch) :
      quote.batch[i] \in quote.got \cup quote.failed \cup quote.missed

\* The rows of users with the identifier discord_id
RowsOf(us, discord_id) == {i \in 1..Len(us) : us[i].discord_id = discord_id}

\* C19: no two users have one identifier, and every task and every badge
\* references a user that exists; no step removes a user or changes a user's
\* identifier, and after a command that went past get_or_create_user the
\* caller has exactly one row.
C19_Integrity ==
  /\ \A i, j \in 1..Len(users) : users[i].discord_id = users[j].discord_id => i = j
  /\ \A t \in 1..Len(tasks) : tasks[t].user_id \in 1..Len(users)
  /\ \A b \in 1..Len(badges) : badges[b].user_id \in 1..Len(users)

C19_Step ==
  /\ \A i \in 1..Len(users) :
       i \in 1..Len(users') /\ users'[i].discord_id = users[i].discord_id
  /\ \A u \in Accounts :
       /\ \A fail \in {0, 2} :
            (reply'.cmd = "addtask" /\ AddTask(u, TxtPlain, fail))
              => Cardinality(RowsOf(users', u)) = 1
       /\ \A id \in 1..MaxTasks :
            (reply'.cmd = "donetask" /\ reply'.task = id /\ DoneTask(u, id, 0))
              => Cardinality(RowsOf(users', u)) = 1

\* C19 (formula): one user per identifier, never removed, no orphan rows
C19_OneUserPerAccount == [](C19_Integrity) /\ [][C19_Step]_vars

\* C19 witness: both accounts have issued commands, many of them, and each
\* has one row; the store holds the tasks and a badge of one of them
C19_Witness ==
  /\ Cardinality(RowsOf(users, "a1")) = 1
  /\ Cardinality(RowsOf(users, "a2")) = 1
  /\ Len(users) = 2
  /\ Len(tasks) = MaxTasks
  /\ Len(badges) >= 1

\* C20: the sweep sends no reminder for a task that is completed at the
\* moment of sending: whenever it begins the send for a task of its batch,
\* that task is not completed.
C20_Step ==
  (sweep'.pc = "await" /\ (sweep.pc # "await" \/ sweep'.idx # sweep.idx))
    => ~tasks'[sweep'.batch[sweep'.idx]].completed

\* C20 (formula): no send begins for a completed task
C20_NoReminderForCompleted == [][C20_Step]_vars

\* C22: with a store that never fails, each user's points are 10 times the
\* number of the user's completed tasks, and no step lowers a user's points.
C22_PointsMatchCompleted ==
  \A u \in 1..Len(users) : users[u].points = 10 * Cardinality(CompletedOf(u))

C22_Step ==
  \A u \in 1..Len(users) : u \in 1..Len(users') /\ users'[u].points >= users[u].points

\* C22 (formula): points are 10 per completed task and never decrease
C22_PointsTenPerTask == [](C22_PointsMatchCompleted) /\ [][C22_Step]_vars

\* C22 witness: one user has completed two tasks and has 20 points, while the
\* other user, who tried to complete them too, has none
C22_Witness ==
  /\ Len(users) = 2
  /\ \E u \in 1..2 :
       /\ users[u].points = 20
       /\ Cardinality(CompletedOf(u)) = 2
       /\ users[3 - u].points = 0
  /\ reply.cmd = "donetask"
  /\ reply.kind = "not_found"

\* C24: each user's badges are downward-closed over the thresholds (14
\* implies 7 implies 3), a user with streak 0 and no last completion holds no
\* badge, and no step removes a badge, the steps that reset the streak to 1
\* included.
C24_DownwardClosed ==
  \A u \in 1..Len(users) :
    /\ HasBadge(badges, u, "14-day-streak") => HasBadge(badges, u, "7-day-streak")
    /\ HasBadge(badges, u, "7-day-streak") => HasBadge(badges, u, "3-day-streak")
    /\ (users[u].streak = 0 /\ users[u].last_completed = NULL) =>
         \A b \in 1..Len(badges) : badges[b].user_id # u

C24_Step ==
  /\ Len(badges') >= Len(badges)
  /\ \A b \in 1..Len(badges) : badges'[b] = badges[b]

\* C24 (formula): badges are downward-closed and only grow
C24_BadgesClosedAndKept == [](C24_DownwardClosed) /\ [][C24_Step]_vars

\* C24 witness: the user holds the three badges after the streak was reset
C24_Witness ==
  /\ users[1].streak = 1
  /\ users[1].last_completed = now
  /\ HasBadge(badges, 1, "14-day-streak")
  /\ HasBadge(badges, 1, "7-day-streak")
  /\ HasBadge(badges, 1, "3-day-streak")
  /\ Len(badges) = 3
  /\ reply.cmd = "streak"
  /\ reply.kind = "done"

\* C23: an edittask leaves the number of tasks and the task's notified flag,
\* completed flag and owner as they were; a task that is notified stays
\* notified in every step, is in no batch the sweep selects, and has no
\* further reminder delivered, whatever due date an edit gives it.
C23_Step ==
  /\ \A id \in 1..Len(tasks), text \in DueEditTexts :
       (reply'.cmd = "edittask" /\ reply'.task = id /\ EditTask("a1", id, text, 0)) =>
         /\ Len(tasks') = Len(tasks)
         /\ tasks'[id].notified = tasks[id].notified
         /\ tasks'[id].completed = tasks[id].completed
         /\ tasks'[id].user_id = tasks[id].user_id
         /\ \A t \in 1..Len(tasks) : t # id => tasks'[t] = tasks[t]
  /\ \A t \in 1..Len(tasks) :
       tasks[t].notified =>
         /\ tasks'[t].notified
         /\ sent'[t] = sent[t]
         /\ (sweep.pc = "idle" /\ sweep'.pc = "await") =>
              \A i \in 1..Len(sweep'.batch) : sweep'.batch[i] # t

\* C23 (formula): an edit keeps notified, and a notified task is not swept again
C23_EditKeepsNotified == [][C23_Step]_vars

\* C23 witness: a task that was due at 0, whose reminder was delivered and
\* which is notified, was then edited to the due date 1; it is notified still
C23_Witness ==
  /\ reply.cmd = "edittask"
  /\ reply.kind = "updated"
  /\ reply.task \in 1..Len(tasks)
  /\ tasks[reply.task].notified
  /\ sent[reply.task] = 1
  /\ tasks[reply.task].due_date = 1
  /\ tasks[reply.task].description = <<"x">>
  /\ ~tasks[reply.task].completed
  /\ now = 0

\* A task of an accepting owner that is due, not completed and not notified
DueForAccepting(t) ==
  /\ t \in 1..Len(tasks)
  /\ users[tasks[t].user_id].discord_id \in Accepting
  /\ ~tasks[t].completed
  /\ ~tasks[t].notified
  /\ tasks[t].due_date # NULL
  /\ tasks[t].due_date <= now

\* The task has its reminder, or is completed, or is not due any more
ReminderSettled(t) ==
  /\ t \in 1..Len(tasks)
  /\ \/ tasks[t].notified /\ sent[t] >= 1
     \/ tasks[t].completed
     \/ tasks[t].due_date = NULL
     \/ tasks[t].due_date > now

\* C21: under fair scheduling of the sweep, a due, not completed, not
\* notified task of an owner who accepts deliveries is eventually notified
\* with its reminder delivered, unless it is completed or gets another due
\* date first, also when other due tasks of the sweep belong to users whose
\* delivery is blocked or fails.
C21_DueTaskEventuallyNotified ==
  \A t \in 1..LifeTasks : DueForAccepting(t) ~> ReminderSettled(t)

====
